---- MODULE Spec2Model ----
(***************************************************************************)
(* Model of elk/server.py: the supervision of one long-lived ELK engine    *)
(* subprocess (_ensure_server_process, shutdown_server) and the line      *)
(* framed request/response exchange of compute_layout.                     *)
(*                                                                         *)
(* Text is modelled as sequences of tokens.  "\n" and " " are whitespace, *)
(* "T" stands for the phrase "End of input at line 2 column 1 path $",    *)
(* every other token is ordinary text.  The empty sequence is the empty   *)
(* string that readline() returns at end-of-file.                         *)
(***************************************************************************)
EXTENDS Integers, Sequences, FiniteSets, TLC

\* ---------------------------------------------------------------- bounds
MaxCalls == 3
MaxErrLines == 2

Threads == {1, 2}
Procs == 1..MaxCalls

VARIABLES
    active,     \* the threads that call the module (fixed by Init)
    _server_process,  \* the global: 0 is None, else the process it refers to
    proc,       \* the engine processes launched so far, by launch number
    nlaunched,  \* how many processes subprocess.Popen has created
    pc,         \* per thread: where it stands inside compute_layout
    call,       \* per thread: the locals of the compute_layout call in progress
    result,     \* per thread: how its last finished compute_layout call ended
    last,       \* per thread: the kind and process of the call before this one
    ncalls,     \* compute_layout and shutdown_server calls started so far
    shut        \* how the last shutdown_server call went

vars == <<active, _server_process, proc, nlaunched, pc, call, result, last, ncalls, shut>>

\* ------------------------------------------------------------ text helpers
IsSpace(t) == t \in {" ", "\n"}

RECURSIVE LStrip(_)
LStrip(s) == IF s # <<>> /\ IsSpace(Head(s)) THEN LStrip(Tail(s)) ELSE s

RECURSIVE RStrip(_)
RStrip(s) == IF s # <<>> /\ IsSpace(s[Len(s)]) THEN RStrip(SubSeq(s, 1, Len(s) - 1)) ELSE s

\* str.strip()
Strip(s) == RStrip(LStrip(s))

\* str.endswith(suffix)
EndsWith(s, suf) ==
    /\ Len(suf) <= Len(s)
    /\ SubSeq(s, Len(s) - Len(suf) + 1, Len(s)) = suf

\* needle in s, for message texts
Contains(s, needle) ==
    \E i \in 1..(Len(s) + 1) :
        /\ i + Len(needle) - 1 <= Len(s)
        /\ SubSeq(s, i, i + Len(needle) - 1) = needle

\* "End of input at line 2 column 1 path $"
BenignTrailer == <<"T">>

\* ------------------------------------------------------ exception classes
\* The builtin hierarchy the two except clauses match against.
Parent(cls) ==
    CASE cls = "BrokenPipeError" -> "OSError"
      [] cls = "OSError" -> "Exception"
      [] cls = "ValidationError" -> "ValueError"
      [] cls = "JSONDecodeError" -> "ValueError"
      [] cls = "ValueError" -> "Exception"
      [] cls = "RuntimeError" -> "Exception"
      [] cls = "TimeoutExpired" -> "Exception"
      [] OTHER -> "BaseException"

RECURSIVE IsInstance(_, _)
IsInstance(exc, cls) ==
    IF exc = cls THEN TRUE
    ELSE IF exc \in {"BaseException", "none"} THEN FALSE
    ELSE IsInstance(Parent(exc), cls)

\* ---------------------------------------------------------------- graphs
\* The caller's argument.  type "str" is an argument that is neither a dict
\* nor an ElkGraph; width "None" is a node without width/height; sources
\* "missing" is an edge without sources/targets.
ValidGraph == [type |-> "dict", width |-> "30", sources |-> "n1"]
UnsizedGraph == [type |-> "dict", width |-> "None", sources |-> "n1"]
InvalidGraph == [type |-> "dict", width |-> "None", sources |-> "missing"]
NotAGraph == [type |-> "str", width |-> "None", sources |-> "missing"]
NoGraph == [type |-> "none", width |-> "None", sources |-> "missing"]
Graphs == {ValidGraph, UnsizedGraph, InvalidGraph, NotAGraph}

\* @validate_call() on graph: dict | ElkGraph
ArgumentValid(g) == g.type = "dict"

\* Variant: the graph is sent as given, unvalidated.
SchemaValidSkipped(g) == TRUE

\* ElkGraph(**graph): ElkEdge.sources/targets are required, ElkNode.width and
\* height are optional.
SchemaValid(g) == g.sources # "missing"

\* model_dump_json(exclude_none=True) + "\n"
DumpJson(g) ==
    <<"{", "id">> \o (IF g.width # "None" THEN <<"width">> ELSE <<>>)
                  \o <<"sources", "}", "\n">>

\* json.loads(line): the layout, or a JSONDecodeError
JsonLoads(line) ==
    LET s == Strip(line) IN
    IF Len(s) = 3 /\ s[1] = "{" /\ s[3] = "}"
    THEN [ok |-> TRUE, value |-> s[2]]
    ELSE [ok |-> FALSE, value |-> "none"]

\* ------------------------------------------------------------- messages
MsgFailed == <<"ELK", "server", "failed">>
MsgError == <<"ELK", "server", "error">>
MsgConnection == <<"ELK", "server", "connection", "failed">>
MsgLaunch == <<"Failed", "to", "ensure", "ELK", "server", "is", "available">>
MsgPipes == <<"Failed", "to", "open", "subprocess", "pipes">>
MsgInvalidPipes == <<"Server", "process", "has", "invalid", "pipes">>
MsgNone == <<>>

\* ------------------------------------------------------- engine processes
\* A subprocess.Popen object and the three pipes it owns.  The buffers hold
\* what was written to a pipe and not yet read from it; they outlive the
\* process.  A pipe reads as end-of-file once its buffer is empty and the
\* process has exited.  missing names the pipe attribute that is None
\* ("none": all three are there).
NoProc ==
    [state |-> "unborn", missing |-> "none", stdinClosed |-> FALSE,
     stdoutClosed |-> FALSE, termReq |-> FALSE, inbuf |-> <<>>, outbuf |-> <<>>,
     errbuf |-> <<>>]
NewProc == [NoProc EXCEPT !.state = "running"]

\* process.stdin is None or process.stdout is None or process.stderr is None
PipeMissing(pr) == pr.missing # "none"

Running(p) == proc[p].state = "running"
Exited(p) == proc[p].state = "exited"

\* Some Popen object still refers to p: the global, or a call's local.
Held(p) == _server_process = p \/ \E c \in Threads : call[c].proc = p

\* The pipes of a Popen object nobody refers to any more are closed with it
\* and what they held is lost; the process itself is not touched, and of it
\* only whether it is alive is kept.
Dropped(pr) ==
    [NoProc EXCEPT !.state = pr.state, !.stdinClosed = TRUE, !.stdoutClosed = TRUE]
Collect(procs, h, calls) ==
    [p \in Procs |->
        IF procs[p].state # "unborn" /\ h # p /\ \A c \in Threads : calls[c].proc # p
        THEN Dropped(procs[p]) ELSE procs[p]]

\* What the engine may put on its streams for request number r.
ResponseLine(r, kind) ==
    CASE kind = "valid" -> << <<"{", ToString(r), "}", "\n">> >>
      [] kind = "garbage" -> << <<"{", ToString(r), "\n">> >>
      [] OTHER -> <<>>
ErrLine(r, kind) ==
    CASE kind = "benign" -> <<ToString(r), "T", "\n">>
      [] kind = "error" -> <<"E", ToString(r), "\n">>
      [] OTHER -> <<"\n">>
ResponseKinds == {"valid", "garbage", "silent"}
ErrKinds == {"benign", "error", "blank"}
ErrSeqs(room) == UNION {[1..n -> ErrKinds] : n \in 0..room}

RECURSIVE Concat(_)
Concat(lines) == IF lines = <<>> THEN <<>> ELSE Head(lines) \o Concat(Tail(lines))

\* ------------------------------------------------ per-call bookkeeping
\* call[c]: the locals of a call in progress.  launchedNew and hadLive record
\* what _ensure_server_process found and did for this call.
NoCall ==
    [rid |-> 0, graph |-> NoGraph, proc |-> 0, response |-> <<>>,
     trace |-> <<>>, launchedNew |-> FALSE, hadLive |-> FALSE]

\* result[c]: how a call ended.  exc is what the caller receives ("none" is a
\* return of value), raisedIn the exception first raised, step the statement
\* that ended the call, errline the line stderr.readline() returned,
\* handleEnd the global when the call ended.
NoResult ==
    [rid |-> 0, graph |-> NoGraph, proc |-> 0, exc |-> "none", msg |-> MsgNone,
     detail |-> <<>>, value |-> "none", raisedIn |-> "none", step |-> "none",
     errline |-> <<>>, response |-> <<>>, trace |-> <<>>, launchedNew |-> FALSE,
     hadLive |-> FALSE, handleEnd |-> 0]

\* last[c]: what the call before the current one was: "none", "ok" (it
\* returned), "closed" (its read met the closed output stream), "connection"
\* (the connection failure of the except clause), "failed" (any other
\* exception), "shutdown"; and the process it ran on.
NoLast == [kind |-> "none", proc |-> 0]
LastOf(r) ==
    [kind |-> IF r.exc = "none" THEN "ok"
              ELSE IF r.raisedIn = "ValueError" /\ r.step = "readline_out" THEN "closed"
              ELSE IF r.exc = "RuntimeError" /\ r.msg = MsgConnection THEN "connection"
              ELSE "failed",
     proc |-> r.proc]

\* shut: the last shutdown_server call.  steps are the statements it reached,
\* raisedIn the exception raised inside the try, exc what reached the caller.
NoShut ==
    [called |-> FALSE, had |-> FALSE, proc |-> 0, steps |-> <<>>,
     raisedIn |-> "none", exc |-> "none", handleEnd |-> 0]

\* Variants of the except clauses, used to test the properties below.
ExchangeCatchesPipeOnly(exc) == IsInstance(exc, "BrokenPipeError")
ExchangeCatchesAll(exc) == IsInstance(exc, "Exception")
ShutdownCatchesOSError(exc) == IsInstance(exc, "OSError")

\* except (OSError, BrokenPipeError) of compute_layout
ExchangeCatches(exc) == IsInstance(exc, "OSError") \/ IsInstance(exc, "BrokenPipeError")

\* except Exception of shutdown_server
ShutdownCatches(exc) == IsInstance(exc, "Exception")

\* The except clause of compute_layout applied to an exception raised inside
\* the try block: what the caller receives, and the global afterwards.
Handled(exc, msg, h) ==
    IF exc # "none" /\ ExchangeCatches(exc)
    THEN [exc |-> "RuntimeError", msg |-> MsgConnection, handle |-> 0]
    ELSE [exc |-> exc, msg |-> msg, handle |-> h]

\* The record of a call k that ended at statement step with exception exc
\* ("none": it returned value); inTry says whether step is inside the try.
Outcome(k, inTry, exc, msg, detail, value, step, errline, trace, h) ==
    LET e == IF inTry THEN Handled(exc, msg, h)
             ELSE [exc |-> exc, msg |-> msg, handle |-> h] IN
    [rid |-> k.rid, graph |-> k.graph, proc |-> k.proc, exc |-> e.exc,
     msg |-> e.msg, detail |-> detail, value |-> value, raisedIn |-> exc,
     step |-> step, errline |-> errline, response |-> k.response,
     trace |-> trace, launchedNew |-> k.launchedNew, hadLive |-> k.hadLive,
     handleEnd |-> e.handle]

Init ==
    /\ active = {1}
    /\ _server_process = 0
    /\ proc = [p \in Procs |-> NoProc]
    /\ nlaunched = 0
    /\ pc = [c \in Threads |-> "idle"]
    /\ call = [c \in Threads |-> NoCall]
    /\ result = [c \in Threads |-> NoResult]
    /\ last = [c \in Threads |-> NoLast]
    /\ ncalls = 0
    /\ shut = NoShut

\* ------------------------------------------------- _ensure_server_process
\* Variant: the liveness poll left out.
NeedsNewProcessNoPoll == _server_process = 0

\* if _server_process is None or _server_process.poll() is not None
NeedsNewProcess == _server_process = 0 \/ ~Running(_server_process)

\* What ensure_server() and Popen may do: "ok" launches, "unresolved" is
\* ensure_server() raising (no runtime, no distribution), "nostdout" is
\* Popen returning an object whose stdout is None.
LaunchOutcomes == {"ok", "unresolved", "nostdout"}
MissingPipe(launch) == IF launch = "nostdout" THEN "stdout" ELSE "none"

\* _server_process = subprocess.Popen(...): the global refers to the new
\* object before its pipes are looked at.
LaunchedHandle(old, p, pr) == p

\* ---------------------------------------------------------- compute_layout
\* Variant: a call that met the connection failure after its request was
\* written sends the request once more.
FinishResending(c, r, procs) ==
    IF pc[c] \in {"readout", "readerr"} /\ r.msg = MsgConnection
    THEN /\ pc' = [pc EXCEPT ![c] = "write"]
         /\ proc' = procs
         /\ UNCHANGED <<result, call, _server_process>>
    ELSE /\ result' = [result EXCEPT ![c] = r]
         /\ pc' = [pc EXCEPT ![c] = "idle"]
         /\ call' = [call EXCEPT ![c] = NoCall]
         /\ _server_process' = r.handleEnd
         /\ proc' = Collect(procs, r.handleEnd, [call EXCEPT ![c] = NoCall])

\* A call ends with record r: the thread is idle again, the except clause has
\* set the global, and procs are the processes after the step.
Finish(c, r, procs) ==
    /\ result' = [result EXCEPT ![c] = r]
    /\ pc' = [pc EXCEPT ![c] = "idle"]
    /\ call' = [call EXCEPT ![c] = NoCall]
    /\ _server_process' = r.handleEnd
    /\ proc' = Collect(procs, r.handleEnd, [call EXCEPT ![c] = NoCall])

\* Variant: the error stream is read before the output line.
ContinueErrFirst(c, k, next, procs) ==
    /\ pc' = [pc EXCEPT ![c] = IF next = "readout" THEN "readerr" ELSE next]
    /\ call' = [call EXCEPT ![c] = k]
    /\ proc' = procs
    /\ UNCHANGED <<result, _server_process>>

\* A call goes on to its next statement with locals k.
Continue(c, k, next, procs) ==
    /\ pc' = [pc EXCEPT ![c] = next]
    /\ call' = [call EXCEPT ![c] = k]
    /\ proc' = procs
    /\ UNCHANGED <<result, _server_process>>

\* Entry of compute_layout up to the request being ready to send: the
\* argument check of @validate_call, _ensure_server_process(), the pipe check
\* and ElkGraph(**graph).
compute_layout(c, g, launch) ==
    /\ c \in active
    /\ pc[c] = "idle"
    /\ ncalls < MaxCalls
    /\ ncalls' = ncalls + 1
    /\ shut' = NoShut
    /\ last' = [last EXCEPT ![c] = IF result[c].rid # 0 THEN LastOf(result[c]) ELSE @]
    /\ UNCHANGED active
    /\ LET k0 == [NoCall EXCEPT !.rid = ncalls + 1, !.graph = g] IN
       IF ~ArgumentValid(g)
       THEN /\ launch = "ok"
            /\ Finish(c, Outcome(k0, FALSE, "ValidationError", MsgNone, <<>>, "none",
                                 "validate_call", <<>>, <<>>, _server_process), proc)
            /\ UNCHANGED nlaunched
       ELSE IF NeedsNewProcess /\ launch = "unresolved"
       THEN /\ Finish(c, Outcome(k0, FALSE, "RuntimeError", MsgLaunch, <<>>, "none",
                                 "ensure_server", <<>>, <<"ensure">>, _server_process), proc)
            /\ UNCHANGED nlaunched
       ELSE IF NeedsNewProcess /\ launch # "ok"
       THEN LET p == nlaunched + 1
                pr == [NewProc EXCEPT !.missing = MissingPipe(launch)]
                k == [k0 EXCEPT !.proc = p, !.launchedNew = TRUE, !.trace = <<"ensure">>]
            IN /\ nlaunched' = nlaunched + 1
               /\ Finish(c, Outcome(k, FALSE, "RuntimeError", MsgPipes, <<>>, "none",
                                    "popen_pipes", <<>>, k.trace,
                                    LaunchedHandle(_server_process, p, pr)),
                         [proc EXCEPT ![p] = pr])
       ELSE IF ~NeedsNewProcess /\ PipeMissing(proc[_server_process])
       THEN LET k == [k0 EXCEPT !.proc = _server_process, !.hadLive = TRUE,
                                !.trace = <<"ensure">>]
            IN /\ launch = "ok"
               /\ Finish(c, Outcome(k, FALSE, "RuntimeError", MsgInvalidPipes, <<>>,
                                    "none", "pipe_check", <<>>, k.trace, _server_process),
                         proc)
               /\ UNCHANGED nlaunched
       ELSE /\ launch = "ok"
            /\ LET new == NeedsNewProcess
                   p == IF new THEN nlaunched + 1 ELSE _server_process
                   k == [k0 EXCEPT !.proc = p, !.launchedNew = new, !.hadLive = ~new,
                                   !.trace = <<"ensure", "validate">>]
                   procs == IF new THEN [proc EXCEPT ![p] = NewProc] ELSE proc
               IN /\ nlaunched' = IF new THEN nlaunched + 1 ELSE nlaunched
                  /\ IF SchemaValid(g)
                     THEN /\ pc' = [pc EXCEPT ![c] = "write"]
                          /\ call' = [call EXCEPT ![c] = k]
                          /\ result' = [result EXCEPT ![c] = NoResult]
                          /\ _server_process' = p
                          /\ proc' = Collect(procs, p, [call EXCEPT ![c] = k])
                     ELSE Finish(c, Outcome(k, TRUE, "ValidationError", MsgNone, <<>>,
                                            "none", "ElkGraph", <<>>, k.trace, p), procs)

\* process.stdin.write(json_str + "\n"); process.stdin.flush()
\* Each outcome: the exception, the statement raising it, and whether the
\* line reached the pipe.
WriteOutcomes(p) ==
    IF proc[p].stdinClosed
    THEN {[exc |-> "ValueError", at |-> "write", sent |-> FALSE]}
    ELSE IF ~Running(p)
    THEN {[exc |-> "BrokenPipeError", at |-> "write", sent |-> FALSE]}
    ELSE {[exc |-> "none", at |-> "flush", sent |-> TRUE],
          [exc |-> "OSError", at |-> "write", sent |-> FALSE],
          [exc |-> "OSError", at |-> "flush", sent |-> TRUE]}

Write(c) ==
    /\ c \in active
    /\ pc[c] = "write"
    /\ LET k == call[c]
           p == k.proc
       IN \E o \in WriteOutcomes(p) :
            LET tr == k.trace \o (IF o.at = "flush" THEN <<"write", "flush">> ELSE <<"write">>)
                procs == IF o.sent
                         THEN [proc EXCEPT ![p].inbuf = Append(@, [rid |-> k.rid, line |-> DumpJson(k.graph)])]
                         ELSE proc
            IN IF o.exc = "none"
               THEN Continue(c, [k EXCEPT !.trace = tr], "readout", procs)
               ELSE Finish(c, Outcome(k, TRUE, o.exc, MsgNone, <<>>, "none", o.at,
                                      <<>>, tr, _server_process), procs)
    /\ UNCHANGED <<active, nlaunched, last, ncalls, shut>>

\* response = process.stdout.readline()
\* "line": a line was read; "eof": the empty string; else the exception.
ReadOutOutcomes(p) ==
    IF proc[p].stdoutClosed THEN {"ValueError"}
    ELSE (IF proc[p].outbuf # <<>> THEN {"line"} ELSE {})
         \cup (IF proc[p].outbuf = <<>> /\ Exited(p) THEN {"eof"} ELSE {})
         \cup {"OSError"}

ReadOut(c) ==
    /\ c \in active
    /\ pc[c] = "readout"
    /\ LET k == call[c]
           p == k.proc
           tr == Append(k.trace, "readline_out")
       IN \E o \in ReadOutOutcomes(p) :
            CASE o = "line" ->
                   Continue(c, [k EXCEPT !.response = Head(proc[p].outbuf), !.trace = tr],
                            "readerr", [proc EXCEPT ![p].outbuf = Tail(@)])
              [] o = "eof" ->
                   Continue(c, [k EXCEPT !.response = <<>>, !.trace = tr], "drain", proc)
              [] OTHER ->
                   Finish(c, Outcome(k, TRUE, o, MsgNone, <<>>, "none", "readline_out",
                                     <<>>, tr, _server_process), proc)
    /\ UNCHANGED <<active, nlaunched, last, ncalls, shut>>

\* Variant: one line read where everything should be.
DrainedFirstLine(lines) == IF lines = <<>> THEN <<>> ELSE Head(lines)

\* process.stderr.read(): everything up to end-of-file
Drained(lines) == Concat(lines)

\* if not response: error = process.stderr.read(); raise RuntimeError(...)
\* read() returns at end-of-file, that is once the process has exited.
DrainErr(c) ==
    /\ c \in active
    /\ pc[c] = "drain"
    /\ LET k == call[c]
           p == k.proc
           tr == Append(k.trace, "read_err")
       IN /\ Exited(p)
          /\ \E o \in {"all", "OSError"} :
               IF o = "all"
               THEN Finish(c, Outcome(k, TRUE, "RuntimeError", MsgFailed,
                                      Drained(proc[p].errbuf), "none", "read_err",
                                      <<>>, tr, _server_process),
                           [proc EXCEPT ![p].errbuf = <<>>])
               ELSE Finish(c, Outcome(k, TRUE, o, MsgNone, <<>>, "none", "read_err",
                                      <<>>, tr, _server_process), proc)
    /\ UNCHANGED <<active, nlaunched, last, ncalls, shut>>

\* Variant: the trailer compared for equality instead of as a suffix.
IsEngineErrorExact(line) ==
    /\ line # <<>>
    /\ Strip(line) # BenignTrailer

\* The check of the line read from stderr: TRUE when it is raised as an
\* engine error.
IsEngineError(line) ==
    /\ line # <<>>
    /\ ~EndsWith(Strip(line), BenignTrailer)

\* Variant: the response parsed before the error line is looked at.
AfterErrLineParseFirst(k, line, tr, h) ==
    LET js == JsonLoads(k.response)
        trp == Append(tr, "parse")
    IN IF ~js.ok
       THEN Outcome(k, TRUE, "JSONDecodeError", MsgNone, <<>>, "none", "parse", line, trp, h)
       ELSE IF IsEngineError(line)
       THEN Outcome(k, TRUE, "RuntimeError", MsgError, Strip(line), "none",
                    "readline_err", line, trp, h)
       ELSE Outcome(k, TRUE, "none", MsgNone, <<>>, js.value, "parse", line, trp, h)

\* error = process.stderr.readline(), the check of it, json.loads(response):
\* what ends the call once line has been read.
AfterErrLine(k, line, tr, h) ==
    IF IsEngineError(line)
    THEN Outcome(k, TRUE, "RuntimeError", MsgError, Strip(line), "none",
                 "readline_err", line, tr, h)
    ELSE LET js == JsonLoads(k.response)
             trp == Append(tr, "parse")
         IN IF js.ok
            THEN Outcome(k, TRUE, "none", MsgNone, <<>>, js.value, "parse", line, trp, h)
            ELSE Outcome(k, TRUE, "JSONDecodeError", MsgNone, <<>>, "none", "parse",
                         line, trp, h)

ReadErrOutcomes(p) ==
    (IF proc[p].errbuf # <<>> THEN {"line"} ELSE {})
    \cup (IF proc[p].errbuf = <<>> /\ Exited(p) THEN {"eof"} ELSE {})
    \cup {"OSError"}

ReadErr(c) ==
    /\ c \in active
    /\ pc[c] = "readerr"
    /\ LET k == call[c]
           p == k.proc
           tr == Append(k.trace, "readline_err")
       IN \E o \in ReadErrOutcomes(p) :
            IF o = "OSError"
            THEN Finish(c, Outcome(k, TRUE, o, MsgNone, <<>>, "none", "readline_err",
                                   <<>>, tr, _server_process), proc)
            ELSE LET line == IF o = "line" THEN Head(proc[p].errbuf) ELSE <<>> IN
                 Finish(c, AfterErrLine(k, line, tr, _server_process),
                        IF o = "line" THEN [proc EXCEPT ![p].errbuf = Tail(@)] ELSE proc)
    /\ UNCHANGED <<active, nlaunched, last, ncalls, shut>>

\* --------------------------------------------------------- shutdown_server
\* How the three statements of the try block may go for process p:
\*   "clean"     all three return, the process is gone when wait() returns
\*   "closefail" stdin.close() raises (unflushed data, broken pipe)
\*   "termfail"  terminate() raises
\*   "timeout"   wait(timeout=1) raises TimeoutExpired, the process lives on
ShutdownScenarios(p) ==
    {"clean"}
    \cup (IF proc[p].missing # "stdin" THEN {"closefail"} ELSE {})
    \cup (IF Running(p) THEN {"timeout", "termfail"} ELSE {})

\* if _server_process.stdin: _server_process.stdin.close()
CloseSteps(pr) == IF pr.missing # "stdin" THEN <<"close">> ELSE <<>>

ShutdownSteps(sc, pr) ==
    CloseSteps(pr) \o
      (CASE sc = "closefail" -> <<>>
         [] sc = "termfail" -> <<"terminate">>
         [] OTHER -> <<"terminate", "wait">>)

ShutdownRaises(sc) ==
    CASE sc = "closefail" -> "BrokenPipeError"
      [] sc = "termfail" -> "OSError"
      [] sc = "timeout" -> "TimeoutExpired"
      [] OTHER -> "none"

\* what leaves shutdown_server when exc was raised inside its try block
ShutdownPropagates(exc) == IF exc # "none" /\ ~ShutdownCatches(exc) THEN exc ELSE "none"

\* Variant: the handle is kept.
ShutdownHandleKept(h) == h

\* finally: _server_process = None
ShutdownHandle(h) == 0

shutdown_server(c) ==
    /\ c \in active
    /\ pc[c] = "idle"
    /\ ncalls < MaxCalls
    /\ ncalls' = ncalls + 1
    /\ result' = [result EXCEPT ![c] = NoResult]
    /\ last' = [last EXCEPT ![c] = [kind |-> "shutdown", proc |-> _server_process]]
    /\ IF _server_process = 0
       THEN /\ shut' = [NoShut EXCEPT !.called = TRUE]
            /\ UNCHANGED <<_server_process, proc>>
       ELSE \E sc \in ShutdownScenarios(_server_process) :
              LET p == _server_process
                  exc == ShutdownRaises(sc)
                  procs == [proc EXCEPT
                              ![p].stdinClosed = TRUE,
                              ![p].termReq = (@ \/ sc \in {"clean", "timeout"}),
                              ![p].state = IF sc = "clean" THEN "exited" ELSE @]
              IN /\ _server_process' = ShutdownHandle(_server_process)
                 /\ proc' = Collect(procs, ShutdownHandle(_server_process), call)
                 /\ shut' = [called |-> TRUE, had |-> TRUE, proc |-> p,
                             steps |-> ShutdownSteps(sc, proc[p]), raisedIn |-> exc,
                             exc |-> ShutdownPropagates(exc),
                             handleEnd |-> ShutdownHandle(_server_process)]
    /\ UNCHANGED <<active, nlaunched, pc, call>>

\* ------------------------------------------------------------- environment
\* What becomes of a process no Popen object refers to is out of the
\* program's sight and not followed further.

\* The engine answers the oldest request it has not answered: at most one
\* line on stdout and some lines on stderr, as far as the stderr pipe has
\* room for them.
EngineRespond(p) ==
    /\ Running(p)
    /\ Held(p)
    /\ proc[p].inbuf # <<>>
    /\ \E out \in ResponseKinds, errs \in ErrSeqs(MaxErrLines - Len(proc[p].errbuf)) :
         LET r == Head(proc[p].inbuf).rid IN
         proc' = [proc EXCEPT
                    ![p].inbuf = Tail(@),
                    ![p].outbuf = @ \o ResponseLine(r, out),
                    ![p].errbuf = @ \o [i \in 1..Len(errs) |-> ErrLine(r, errs[i])]]
    /\ UNCHANGED <<active, _server_process, nlaunched, pc, call, result, last, ncalls, shut>>

\* The engine process exits: on its own (a crash), or after its input was
\* closed or its termination requested.
EngineExit(p) ==
    /\ Running(p)
    /\ Held(p)
    /\ proc' = [proc EXCEPT ![p].state = "exited", ![p].inbuf = <<>>]
    /\ UNCHANGED <<active, _server_process, nlaunched, pc, call, result, last, ncalls, shut>>

\* The caller's side of the engine's output stream is closed under a call
\* that waits for the response (the crash simulation of the test scenario).
CloseOutputStream(c) ==
    /\ pc[c] = "readout"
    /\ ~proc[call[c].proc].stdoutClosed
    /\ proc' = [proc EXCEPT ![call[c].proc].stdoutClosed = TRUE]
    /\ UNCHANGED <<active, _server_process, nlaunched, pc, call, result, last, ncalls, shut>>

Next ==
    \/ \E c \in Threads, g \in Graphs, l \in LaunchOutcomes : compute_layout(c, g, l)
    \/ \E c \in Threads : Write(c)
    \/ \E c \in Threads : ReadOut(c)
    \/ \E c \in Threads : DrainErr(c)
    \/ \E c \in Threads : ReadErr(c)
    \/ \E c \in Threads : shutdown_server(c)
    \/ \E p \in Procs : EngineRespond(p)
    \/ \E p \in Procs : EngineExit(p)
    \/ \E c \in Threads : CloseOutputStream(c)

Spec == Init /\ [][Next]_vars

\* Two threads of the same interpreter call the module's functions; the
\* module takes no lock, so their statements interleave at every I/O
\* statement.  The threads start once thread 1 has called shutdown_server()
\* on the fresh module (which found no handle).
InitTwoCallers ==
    /\ active = Threads
    /\ _server_process = 0
    /\ proc = [p \in Procs |-> NoProc]
    /\ nlaunched = 0
    /\ pc = [c \in Threads |-> "idle"]
    /\ call = [c \in Threads |-> NoCall]
    /\ result = [c \in Threads |-> NoResult]
    /\ last = [c \in Threads |-> IF c = 1 THEN [kind |-> "shutdown", proc |-> 0] ELSE NoLast]
    /\ ncalls = 1
    /\ shut = [NoShut EXCEPT !.called = TRUE]

SpecTwoCallers == InitTwoCallers /\ [][Next]_vars

\* ================================================================ properties
Rids == 1..MaxCalls
IoSteps == {"write", "flush", "readline_out", "read_err", "readline_err"}
InTrace(tr, step) == \E i \in 1..Len(tr) : tr[i] = step
Done(c) == result[c].rid # 0
IsValidResponse(line) == \E r \in Rids : <<line>> = ResponseLine(r, "valid")
IsGarbageResponse(line) == \E r \in Rids : <<line>> = ResponseLine(r, "garbage")
IsBenignLine(line) == \E r \in Rids : line = ErrLine(r, "benign")
IsErrorLine(line) == \E r \in Rids : line = ErrLine(r, "error")
\* stderr.readline() of the call returned (it did not raise)
ErrLineRead(r) ==
    /\ InTrace(r.trace, "readline_err")
    /\ ~(r.step = "readline_err" /\ r.raisedIn # "RuntimeError")
LiveHandle == _server_process # 0 /\ proc[_server_process].state = "running"

\* A step that runs _ensure_server_process for thread c, whether it
\* returned, and the process the call then uses.
C1_EnsureStep(c) ==
    /\ pc[c] = "idle"
    /\ \/ call'[c].rid = ncalls + 1
       \/ result'[c].rid = ncalls + 1 /\ result'[c].trace # <<>>
C1_Returned(c) ==
    \/ call'[c].rid = ncalls + 1
    \/ result'[c].rid = ncalls + 1 /\ result'[c].step \in {"ElkGraph", "pipe_check"}
C1_Used(c) == IF call'[c].rid = ncalls + 1 THEN call'[c].proc ELSE result'[c].proc
\* C1: _ensure_server_process returns the existing process, launching
\* nothing, whenever a handle exists and its poll says it runs; otherwise it
\* launches exactly one new process and returns that one (or raises, with
\* nothing launched or with the one process launched lacking a pipe); after a
\* successful exchange the next exchange runs on the same process unless
\* that process has exited.
C1_EnsureReusesLiveProcess ==
    [][\A c \in Threads :
         C1_EnsureStep(c) =>
           /\ IF LiveHandle
              THEN /\ nlaunched' = nlaunched
                   /\ C1_Returned(c)
                   /\ C1_Used(c) = _server_process
                   /\ _server_process' = _server_process
              ELSE IF C1_Returned(c)
              THEN /\ nlaunched' = nlaunched + 1
                   /\ proc[nlaunched'].state = "unborn"
                   /\ proc'[nlaunched'].state = "running"
                   /\ C1_Used(c) = nlaunched'
                   /\ _server_process' = nlaunched'
              ELSE \/ /\ nlaunched' = nlaunched
                      /\ _server_process' = _server_process
                   \/ /\ nlaunched' = nlaunched + 1
                      /\ proc[nlaunched'].state = "unborn"
                      /\ proc'[nlaunched'].state = "running"
                      /\ PipeMissing(proc'[nlaunched'])
           /\ (Done(c) /\ result[c].exc = "none" /\ Running(result[c].proc))
                => (C1_Used(c) = result[c].proc /\ nlaunched' = nlaunched)
    ]_vars
C1_Witness ==
    /\ pc[1] = "write"
    /\ last[1].kind = "ok"
    /\ call[1].proc = last[1].proc
    /\ ~call[1].launchedNew

\* C2: after an exchange that failed because the output stream was closed
\* under it, the next compute_layout call with a valid graph runs on a newly
\* launched engine process.
C2_RelaunchAfterClosedStream ==
    \A c \in Threads :
        (call[c].rid # 0 /\ last[c].kind = "closed") => call[c].launchedNew

\* C3: a write, flush or read of the exchange that fails with an I/O error
\* ends the call with the connection failure and the global handle cleared,
\* and the next call launches a fresh process.
C3_IoErrorClearsHandle ==
    \A c \in Threads :
        /\ (Done(c) /\ result[c].step \in IoSteps
              /\ result[c].raisedIn \in {"OSError", "BrokenPipeError"})
             => /\ result[c].exc = "RuntimeError"
                /\ result[c].msg = MsgConnection
                /\ result[c].handleEnd = 0
                /\ _server_process = 0
        /\ (call[c].rid # 0 /\ last[c].kind = "connection")
             => (call[c].launchedNew /\ call[c].proc # last[c].proc)
C3_Witness ==
    /\ pc[1] = "write"
    /\ last[1].kind = "connection"
    /\ call[1].launchedNew

\* C4: shutdown_server never raises: without a handle, twice in a row, on an
\* exited process, when close() or terminate() raises, when wait() times out.
C4_ShutdownNeverRaises == shut.called => shut.exc = "none"
C4_Witness == shut.called /\ shut.had /\ shut.raisedIn = "TimeoutExpired"

\* C5: for the graph with unsized nodes and an edge without sources/targets
\* compute_layout fails with a RuntimeError whose message contains
\* "ELK server".
C5_InvalidGraphEngineError ==
    \A c \in Threads :
        (Done(c) /\ result[c].graph = InvalidGraph)
          => /\ result[c].exc = "RuntimeError"
             /\ Contains(result[c].msg, <<"ELK", "server">>)

\* The call recorded in r wrote no request line and read nothing.
C6_NoIo(r) ==
    /\ \A i \in 1..Len(r.trace) : r.trace[i] \notin IoSteps
    /\ r.response = <<>>
    /\ \A p \in Procs : \A i \in 1..Len(proc[p].inbuf) : proc[p].inbuf[i].rid # r.rid
C7_EngineErrorTakesPrecedence ==
    \A c \in Threads :
        (Done(c) /\ result[c].response # <<>> /\ ErrLineRead(result[c])
           /\ IsErrorLine(result[c].errline))
          => /\ result[c].exc = "RuntimeError"
             /\ result[c].msg = MsgError
             /\ result[c].detail = SubSeq(result[c].errline, 1, 2)
             /\ result[c].value = "none"
             /\ ~InTrace(result[c].trace, "parse")
C7_Witness ==
    /\ Done(1)
    /\ IsGarbageResponse(result[1].response)
    /\ IsErrorLine(result[1].errline)
    /\ result[1].msg = MsgError

\* C8: a valid JSON response line followed by the benign trailer on the error
\* stream: the trailer is discarded and the parsed response returned.
C8_BenignTrailerDiscarded ==
    \A c \in Threads :
        (Done(c) /\ IsValidResponse(result[c].response) /\ ErrLineRead(result[c])
           /\ IsBenignLine(result[c].errline))
          => /\ result[c].exc = "none"
             /\ result[c].value = result[c].response[2]
             /\ result[c].step = "parse"
C8_Witness ==
    /\ Done(1)
    /\ IsValidResponse(result[1].response)
    /\ IsBenignLine(result[1].errline)
    /\ result[1].exc = "none"

\* C9: when the read of the response line yields nothing, the call reads
\* everything left on the error stream and, that read returning, fails with
\* "ELK server failed" carrying all of it; it neither reads a single error
\* line nor parses.
C9_EmptyResponseDrains ==
    [][\A c \in Threads :
         /\ (pc[c] = "readout" /\ pc'[c] = "readerr") => call'[c].response # <<>>
         /\ (pc[c] = "readout" /\ pc'[c] = "drain") => call'[c].response = <<>>
         /\ (pc[c] = "drain" /\ pc'[c] # "drain")
              => /\ pc'[c] = "idle"
                 /\ result'[c].trace = Append(call[c].trace, "read_err")
                 /\ result'[c].value = "none"
                 /\ \/ result'[c].raisedIn \in {"OSError", "BrokenPipeError"}
                    \/ /\ result'[c].exc = "RuntimeError"
                       /\ result'[c].msg = MsgFailed
                       /\ result'[c].detail = Concat(proc[call[c].proc].errbuf)
                       /\ proc'[call[c].proc].errbuf = <<>>
    ]_vars
C9_Witness ==
    /\ Done(1)
    /\ result[1].msg = MsgFailed
    /\ result[1].response = <<>>
    /\ Len(result[1].detail) > 3

\* C10: a response line that is not JSON, with the error line absent or
\* benign: the call fails with JSONDecodeError, which is no RuntimeError, and
\* the handle stays what it was.
C10_MalformedResponse ==
    \A c \in Threads :
        (Done(c) /\ IsGarbageResponse(result[c].response) /\ ErrLineRead(result[c])
           /\ (result[c].errline = <<>> \/ IsBenignLine(result[c].errline)))
          => /\ result[c].exc = "JSONDecodeError"
             /\ ~IsInstance(result[c].exc, "RuntimeError")
             /\ result[c].handleEnd = result[c].proc
             /\ _server_process = result[c].proc
C10_Witness ==
    /\ Done(1)
    /\ result[1].exc = "JSONDecodeError"
    /\ IsBenignLine(result[1].errline)
    /\ _server_process = result[1].proc

\* C11: a launch that fails (runtime unresolved, or a pipe missing) fails its
\* call with a launch error and is fatal to that call only: no later call's
\* _ensure_server_process returns a process left behind by a failed launch.
C11_FailedLaunchLeavesNoHandle ==
    \A c \in Threads :
        /\ (Done(c) /\ result[c].step \in {"ensure_server", "popen_pipes"})
             => /\ result[c].exc = "RuntimeError"
                /\ result[c].msg \in {MsgLaunch, MsgPipes}
        /\ (Done(c) /\ result[c].hadLive) => ~PipeMissing(proc[result[c].proc])

\* C12: no retry inside a call: a process is launched only by the entry of a
\* call and at most one by it; a request line is put on an input stream only
\* by the write statement of the call it belongs to, one line at a time; and
\* once past its write statement a call never comes back to it, whatever
\* failure it meets.
C12_NoRetryWithinCall ==
    [][/\ nlaunched' # nlaunched
          => /\ nlaunched' = nlaunched + 1
             /\ ncalls' = ncalls + 1
             /\ \A q \in Procs \ {nlaunched'} : proc'[q].state = "unborn" <=> proc[q].state = "unborn"
       /\ \A c \in Threads :
            /\ (pc[c] # "idle" /\ pc'[c] # pc[c]) => nlaunched' = nlaunched
            /\ pc'[c] = "write" => pc[c] \in {"idle", "write"}
            /\ (pc[c] # "idle" /\ pc'[c] = "idle")
                 => (result'[c].rid = call[c].rid /\ call'[c] = NoCall)
       /\ \A p \in Procs :
            Len(proc'[p].inbuf) > Len(proc[p].inbuf)
              => \E c \in Threads :
                   /\ pc[c] = "write" /\ pc'[c] # "write"
                   /\ call[c].proc = p
                   /\ proc'[p].inbuf = Append(proc[p].inbuf,
                                              [rid |-> call[c].rid,
                                               line |-> DumpJson(call[c].graph)])
    ]_vars
C12_Witness ==
    /\ Done(1)
    /\ result[1].launchedNew
    /\ result[1].msg = MsgConnection
    /\ InTrace(result[1].trace, "flush")
    /\ result[1].step = "readline_err"

\* C13: after every shutdown_server call the global handle is absent, whatever
\* became of close, terminate and wait and whether or not the process
\* exited; the next compute_layout never gets an existing process from
\* _ensure_server_process, it takes the launch branch (a new process, unless
\* ensure_server() raises); a shutdown right after a shutdown changes nothing.
C13_ShutdownClearsHandle ==
    [][/\ shut'.called => (_server_process' = 0 /\ shut'.handleEnd = 0)
       /\ \A c \in Threads :
            /\ (call'[c].rid # 0 /\ last'[c].kind = "shutdown")
                 => (call'[c].launchedNew /\ call'[c].proc # last'[c].proc)
            /\ (result'[c].rid # 0 /\ last'[c].kind = "shutdown")
                 => /\ ~result'[c].hadLive
                    /\ \/ result'[c].launchedNew
                       \/ result'[c].step \in {"validate_call", "ensure_server"}
       /\ (shut.called /\ shut'.called /\ ncalls' = ncalls + 1)
            => /\ UNCHANGED <<_server_process, proc, nlaunched, pc, call>>
               /\ shut'.steps = <<>>
               /\ shut'.exc = "none"
    ]_vars
C13_Witness ==
    /\ pc[1] = "write"
    /\ last[1].kind = "shutdown"
    /\ last[1].proc # 0
    /\ Running(last[1].proc)
    /\ call[1].launchedNew
    /\ call[1].proc # last[1].proc

\* C14: a shutdown_server call that finds a handle goes through close input
\* stream, request termination, bounded wait in that order, and has requested
\* termination by the time it discards the handle, also when the close
\* fails.
C14_TerminateBeforeDiscard ==
    (shut.called /\ shut.had)
      => /\ \E n \in 1..3 : shut.steps = SubSeq(<<"close", "terminate", "wait">>, 1, n)
         /\ InTrace(shut.steps, "terminate")
         /\ shut.handleEnd = 0

\* C15: of the engine processes launched, at most one is alive at any time:
\* a process whose handle was discarded is gone before its replacement is
\* launched.
C15_AtMostOneAlive == Cardinality({p \in Procs : Running(p)}) <= 1

\* C16: in an exchange whose engine is alive, has answered with a valid
\* response line and has put nothing on the error stream, the read of the
\* error line is able to return, so that the call goes on to return the
\* parsed response: it does not wait for a line that never comes.
C16_ErrorReadReturns ==
    \A c \in Threads :
        (/\ pc[c] = "readerr"
         /\ IsValidResponse(call[c].response)
         /\ Running(call[c].proc)
         /\ proc[call[c].proc].inbuf = <<>>
         /\ proc[call[c].proc].errbuf = <<>>)
          => \E o \in ReadErrOutcomes(call[c].proc) : o \in {"line", "eof"}

\* C17: exchanges on one engine process do not interleave: two callers are
\* never both between the write of their request and the end of their
\* error-line check on the same process, and the response line a caller
\* reads is the one answering its own request.
C17_ExchangesDoNotInterleave ==
    /\ \A c, d \in Threads :
         (c # d /\ call[c].rid # 0 /\ call[c].proc = call[d].proc)
           => ~(pc[c] \in {"readout", "readerr", "drain"}
                  /\ pc[d] \in {"readout", "readerr", "drain"})
    /\ \A c \in Threads :
         /\ call[c].response # <<>> => call[c].response[2] = ToString(call[c].rid)
         /\ result[c].response # <<>> => result[c].response[2] = ToString(result[c].rid)

\* tr is the beginning of full.
C18_Prefix(tr, full) == Len(tr) <= Len(full) /\ \A i \in 1..Len(tr) : tr[i] = full[i]
\* The statements a call went through are in the order of the source.
C18_InOrder(tr) ==
    \/ C18_Prefix(tr, <<"ensure", "validate", "write", "flush", "readline_out",
                        "readline_err", "parse">>)
    \/ tr = <<"ensure", "validate", "write", "flush", "readline_out", "read_err">>
\* Nothing refers to process p any more after the step.
C18_Released(p) == p # _server_process' /\ \A c \in Threads : call'[c].proc # p
\* C18: within every exchange the statements run in the order write, flush,
\* read one output line, read the error stream, parse: the output stream is
\* read only by a call that has flushed its request, the error stream only
\* by a call whose output read has returned, and a call parses only in the
\* step that checked its error line.
C18_FixedStepOrder ==
    [][/\ \A c \in Threads :
            /\ C18_InOrder(call'[c].trace)
            /\ C18_InOrder(result'[c].trace)
            /\ pc'[c] # pc[c]
                 => <<pc[c], pc'[c]>> \in {<<"idle", "write">>, <<"write", "readout">>,
                                          <<"readout", "readerr">>, <<"readout", "drain">>,
                                          <<"write", "idle">>, <<"readout", "idle">>,
                                          <<"readerr", "idle">>, <<"drain", "idle">>}
            /\ (pc[c] # "idle" /\ pc'[c] = "idle" /\ InTrace(result'[c].trace, "parse"))
                 => /\ pc[c] = "readerr"
                    /\ call[c].response # <<>>
                    /\ ~IsEngineError(result'[c].errline)
       /\ \A p \in Procs :
            /\ Len(proc'[p].outbuf) < Len(proc[p].outbuf)
                 => \/ C18_Released(p)
                    \/ \E c \in Threads :
                         /\ call[c].proc = p /\ pc[c] = "readout"
                         /\ InTrace(call[c].trace, "flush")
            /\ Len(proc'[p].errbuf) < Len(proc[p].errbuf)
                 => \/ C18_Released(p)
                    \/ \E c \in Threads :
                         /\ call[c].proc = p /\ pc[c] \in {"readerr", "drain"}
                         /\ InTrace(call[c].trace, "readline_out")
    ]_vars
C18_Witness ==
    /\ Done(1)
    /\ result[1].exc = "none"
    /\ result[1].trace = <<"ensure", "validate", "write", "flush", "readline_out",
                           "readline_err", "parse">>

\* C19: a compute_layout call that fails validation leaves the supervisor as
\* it found it: no engine process is launched and the global handle after the
\* call is the handle before it.
C19_ValidationFailureChangesNothing ==
    [][\A c \in Threads :
         (pc[c] = "idle" /\ result'[c].rid = ncalls + 1
            /\ result'[c].raisedIn = "ValidationError")
           => /\ nlaunched' = nlaunched
              /\ _server_process' = _server_process
              /\ \A p \in Procs : proc'[p].state = proc[p].state
    ]_vars

\* The error-stream lines the engine writes for request number r.
C20_LinesFor(r) == {ErrLine(r, "benign"), ErrLine(r, "error")}
\* C20: diagnostics do not carry over between exchanges on one process: once
\* an exchange has read its error line and ended, none of the lines the
\* engine wrote for it is left unread on the error stream, and the engine
\* error or benign trailer an exchange reads was written for its own request.
C20_NoDiagnosticCarryOver ==
    \A c \in Threads :
        (Done(c) /\ ErrLineRead(result[c])) =>
          /\ \A p \in Procs : \A i \in 1..Len(proc[p].errbuf) :
                 proc[p].errbuf[i] \notin C20_LinesFor(result[c].rid)
          /\ (IsErrorLine(result[c].errline) \/ IsBenignLine(result[c].errline))
               => result[c].errline \in C20_LinesFor(result[c].rid)

\* C21: a blank line on the error stream (nothing left of it after
\* stripping) read after a valid response line is not reported as an engine
\* error: the call returns the parsed response.
C21_BlankErrorLineIgnored ==
    \A c \in Threads :
        (Done(c) /\ IsValidResponse(result[c].response) /\ ErrLineRead(result[c])
           /\ result[c].errline # <<>> /\ Strip(result[c].errline) = <<>>)
          => /\ result[c].exc = "none"
             /\ result[c].value = result[c].response[2]

====
